---- MODULE Spec2Model ----
(***************************************************************************)
(* Model of the harmonic_client package: the paginated fetch-and-batch     *)
(* loop of HarmonicClient (client.py), the once-per-day failure notifier   *)
(* (error_notifier.py), the skip-if-exists warehouse sync                  *)
(* (sync_harmonic_to_bigquery.py) and the detail-fetch clients             *)
(* (get_full_profile.py, get_education.py, get_experience.py,              *)
(* get_profile.py, search_name.py).                                        *)
(***************************************************************************)
EXTENDS Integers, Sequences, FiniteSets, TLC

\* ---------------------------------------------------------------- bounds
MaxPages == 3        \* largest max_pages argument explored
MaxBatch == 2        \* largest batch_size argument explored
MaxPageLen == 2      \* largest number of edges one response carries
MaxDay == 3          \* calendar days explored by the notifier
MaxInvocations == 4  \* notifier invocations explored
MaxRuns == 2         \* sync_person runs explored
MaxListLen == 1      \* longest education / experience list fetched
MaxYear == 2         \* calendar years explored (the first one is year 1)
MaxTransforms == 2   \* invocations of the three transforms on one input
MaxEduLen == 2       \* longest education list handed to the transforms

\* Python's None is the empty tuple, a present value v is <<v>>.
None == <<>>
Some(v) == <<v>>

VARIABLES
    \* ---- HarmonicClient paginated fetch (client.py)
    pc,             \* "idle" | "loop" | "returned" | "raised"
    op,             \* "companies" | "people" | "none"
    max_pages, batch_size,
    payload,        \* [hasVariables, after]
    all_edges, total_count, page, current_batch, batch_number,
    batchFiles,     \* writes of _save_*_to_json, in write order
    outputFile,     \* write of _save_all_*_to_json (None before it)
    requests,       \* payload of every requests.post made, in order
    responses,      \* response received for each request, in order
    classified,     \* result of _check_and_notify_error per request
    ret,            \* returned dict (None before return)
    stop,           \* which exit the loop took, "none" while it runs
    exc,            \* name of the exception that left the call, or "none"
    now,            \* datetime.now(), in seconds
    last_long_break,\* the caller's local of lines 104 / 254
    delays,         \* calls of _apply_human_like_delay: [at, long, secs, request, cursor]
    \* ---- HarmonicErrorNotifier and the Glue thread (error_notifier.py)
    messenger,      \* TRUE iff self.messenger is not None
    today,          \* datetime.now() as a day number
    seenKeys,       \* unique_by keys the Glue thread has accepted
    delivered,      \* notifications delivered to the thread, in order
    invoked,        \* notifier invocations, in order: [cat, day, ok (returned True)]
    \* ---- HarmonicToBigQuerySync (sync_harmonic_to_bigquery.py)
    tables,         \* table name -> sequence of rows held for the key
    calls,          \* warehouse / transform calls of the last run, in order
    results,        \* dict returned by the last sync_person (None before)
    runs,           \* number of sync_person runs made
    racePc,         \* per concurrent run: "idle", <<k, "check" | "insert">>, "done"
    overlapped,     \* TRUE once a run has started while the other was under way
    wrote,          \* <<run, table>> pairs: the run sent rows to the table
    year,           \* datetime.now().year
    transformed,    \* invocations of the three transforms: input, time, rows
    \* ---- detail-fetch clients
    detail          \* the detail-client call made (None before): op, responses, outcome

fetchVars == <<pc, op, max_pages, batch_size, payload, all_edges, total_count,
               page, current_batch, batch_number, batchFiles, outputFile,
               requests, responses, classified, ret, stop, exc,
               now, last_long_break, delays>>
notifierVars == <<messenger, today, seenKeys, delivered, invoked>>
syncVars == <<tables, calls, results, runs, racePc, overlapped, wrote>>
transformVars == <<year, transformed>>
detailVars == <<detail>>
vars == <<fetchVars, notifierVars, syncVars, transformVars, detailVars>>

\* ------------------------------------------------------------- helpers
RECURSIVE Flatten(_)
Flatten(ss) == IF ss = <<>> THEN <<>> ELSE Head(ss) \o Flatten(Tail(ss))

Range(s) == {s[i] : i \in DOMAIN s}

\* ======================================================= error notifier
AuthPrefix == "harmonic_auth_error_"
ApiPrefix == "harmonic_api_error_"

\* f"harmonic_auth_error_{today}" / f"harmonic_api_error_{today}"
unique_key_nodate(prefix, day) == <<prefix, 0>>
unique_key(prefix, day) == <<prefix, day>>

\* The notifier state as one record, so that the client can thread it.
NotifierState == [seenKeys |-> seenKeys, delivered |-> delivered,
                  invoked |-> invoked]

\* messenger.send_chat_message(target, text, unique_by): the thread keeps
\* one message per unique_by key; sendOK = FALSE is the call throwing.
send_chat_message(ns, cat, key, sendOK) ==
    IF sendOK /\ key \notin ns.seenKeys
    THEN [ns EXCEPT !.seenKeys = @ \cup {key},
                    !.delivered = Append(@, [cat |-> cat, day |-> today, key |-> key])]
    ELSE ns

\* notify_auth_failure: no messenger -> False; else send with the day key.
notify_auth_failure_unguarded(ns, sendOK) ==
    LET ns1 == [ns EXCEPT !.invoked = Append(@, [cat |-> "auth", day |-> today,
                                                     ok |-> sendOK])]
    IN send_chat_message(ns1, "auth", unique_key(AuthPrefix, today), sendOK)
notify_auth_failure(ns, sendOK) ==
    LET ns1 == [ns EXCEPT !.invoked = Append(@, [cat |-> "auth", day |-> today,
                                                     ok |-> messenger /\ sendOK])]
    IN IF ~messenger THEN ns1
       ELSE send_chat_message(ns1, "auth", unique_key(AuthPrefix, today), sendOK)

\* notify_api_error: same shape, its own key prefix.
notify_api_error(ns, sendOK) ==
    LET ns1 == [ns EXCEPT !.invoked = Append(@, [cat |-> "api", day |-> today,
                                                     ok |-> messenger /\ sendOK])]
    IN IF ~messenger THEN ns1
       ELSE send_chat_message(ns1, "api", unique_key(ApiPrefix, today), sendOK)

SetNotifier(ns) ==
    /\ seenKeys' = ns.seenKeys
    /\ delivered' = ns.delivered
    /\ invoked' = ns.invoked

\* ------------------------------------------- notifier called on its own
\* notify_auth_failure(error_details), called by any of the clients.
NotifyAuthFailure ==
    /\ Len(invoked) < MaxInvocations
    /\ \E sendOK \in BOOLEAN : SetNotifier(notify_auth_failure(NotifierState, sendOK))
    /\ UNCHANGED <<messenger, today, fetchVars, syncVars, transformVars, detailVars>>

\* notify_api_error(error_type, error_details), called by any of the clients.
NotifyApiError ==
    /\ Len(invoked) < MaxInvocations
    /\ \E sendOK \in BOOLEAN : SetNotifier(notify_api_error(NotifierState, sendOK))
    /\ UNCHANGED <<messenger, today, fetchVars, syncVars, transformVars, detailVars>>

\* Midnight passes: datetime.now().strftime("%Y-%m-%d") changes.
NextDay ==
    /\ today < MaxDay
    /\ today' = today + 1
    /\ UNCHANGED <<messenger, seenKeys, delivered, invoked, fetchVars, syncVars,
                   transformVars, detailVars>>

\* ============================ HarmonicToBigQuerySync (sync_harmonic_to_bigquery.py)
MappingTable == "linkedin_harmonic_mapping"
ContentTables == <<"linkedin_education", "linkedin_experience", "linkedin_profile">>
TableNames == {MappingTable} \cup Range(ContentTables)
\* The person being synced, and another person whose rows the warehouse
\* already holds.
LinkedinIds == {"ann"}
OtherId == "bob"
HarmonicId == [ann |-> 11, bob |-> 22]

\* check_user_exists(table_name, linkedin_id): COUNT(*) WHERE linkedinId = id > 0
check_user_exists_never(tbls, t, lid) == FALSE
check_user_exists(tbls, t, lid) ==
    Cardinality({i \in DOMAIN tbls[t] : tbls[t][i].linkedinId = lid}) > 0

\* check_mapping_exists(linkedin_id): COUNT(*) WHERE linkedin_id = id > 0
check_mapping_exists_never(tbls, lid) == FALSE
check_mapping_exists(tbls, lid) ==
    Cardinality({i \in DOMAIN tbls[MappingTable] :
                    tbls[MappingTable][i].linkedin_id = lid}) > 0

\* An education / experience entry as Harmonic returns it, reduced to what
\* the transforms branch on: the end date (key missing, empty string, a
\* string that is no date - endYear 0 stands for its text -, or a date of
\* year endYear) and the school slug / company id (None when absent).
Entry(k, y, o) == [endKind |-> k, endYear |-> y, org |-> o]
OrgId == 7
EducationEntries ==
    {Entry("missing", 0, o) : o \in {None, Some(OrgId)}}
    \cup {Entry(k, 0, None) : k \in {"empty", "junk"}}
    \cup {Entry("date", y, None) : y \in 1..MaxYear}
ExperienceEntries == {Entry("missing", 0, o) : o \in {None, Some(OrgId)}}

\* if edu.get("endDate"): end_date = edu["endDate"][:10] - the first ten
\* characters of whatever non-empty string is there, else None.
EndDate(e) == IF e.endKind \in {"date", "junk"} THEN Some(e.endYear) ELSE None

\* f"urn:li:fs_education:harmonic_{linkedin_id}_{idx}" and its fs_position twin
entity_urn_dated(kind, lid, idx) == <<kind, lid, idx, today>>
entity_urn(kind, lid, idx) == <<kind, lid, idx>>

\* transform_education: one row per list entry, in list order; the synthetic
\* identifiers come from linkedin_id and the zero-based index, the school URN
\* from the school's LinkedIn slug when there is one.
transform_education(education_list, lid) ==
    [i \in DOMAIN education_list |->
        LET edu == education_list[i]
            idx == i - 1
        IN [date |-> today,
            linkedinId |-> lid,
            entityUrn |-> entity_urn("fs_education", lid, idx),
            school_trackingId |-> <<"harmonic", lid, idx>>,
            schoolUrn |-> IF edu.org # None
                          THEN <<"fs_miniSchool", "slug", edu.org[1]>>
                          ELSE <<"fs_miniSchool", "harmonic", idx>>,
            endDate |-> EndDate(edu),
            src |-> edu]]

\* transform_experience: one row per list entry, in list order; the company
\* URN comes from the Harmonic company id, None without one.
transform_experience(experience_list, lid) ==
    [i \in DOMAIN experience_list |->
        LET exp == experience_list[i]
            idx == i - 1
        IN [date |-> today,
            linkedinId |-> lid,
            entityUrn |-> entity_urn("fs_position", lid, idx),
            companyUrn |-> IF exp.org # None
                           THEN Some(<<"fs_miniCompany", "harmonic", exp.org[1]>>)
                           ELSE None,
            endDate |-> EndDate(exp),
            src |-> exp]]

\* Lines 387-399, the loop over education_list: an entry whose endDate is
\* missing or empty is passed over, one whose first four characters are no
\* number raises inside the try and is passed over, the first one whose year
\* is the current year or later sets the flag and ends the loop.
RECURSIVE is_student_strict(_)
is_student_strict(education_list) ==
    IF education_list = <<>> THEN FALSE
    ELSE LET edu == Head(education_list)
         IN IF edu.endKind \in {"missing", "empty"}
            THEN is_student_strict(Tail(education_list))
            ELSE IF edu.endKind = "junk"
            THEN is_student_strict(Tail(education_list))
            ELSE IF edu.endYear > year
            THEN TRUE
            ELSE is_student_strict(Tail(education_list))
RECURSIVE is_student(_)
is_student(education_list) ==
    IF education_list = <<>> THEN FALSE
    ELSE LET edu == Head(education_list)
         IN IF edu.endKind \in {"missing", "empty"}
            THEN is_student(Tail(education_list))
            ELSE IF edu.endKind = "junk"
            THEN is_student(Tail(education_list))
            ELSE IF edu.endYear >= year
            THEN TRUE
            ELSE is_student(Tail(education_list))

\* transform_profile: a single row synthesised from both lists.
transform_profile(hid, lid, education_list, experience_list) ==
    [date |-> today,
     linkedinId |-> lid,
     student |-> is_student(education_list),
     entityUrn |-> <<"fs_profile", hid>>,
     src |-> <<Len(education_list), Len(experience_list)>>]

\* ------------------------------------------ the transforms called on their own
Lists(S, max) == UNION {[1..n -> S] : n \in 0..max}

TransformInputs ==
    {[linkedin_id |-> lid, harmonic_id |-> HarmonicId[lid],
      education_list |-> e, experience_list |-> x] :
        lid \in LinkedinIds, e \in Lists(EducationEntries, MaxEduLen),
        x \in Lists(ExperienceEntries, MaxListLen)}

\* transform_education, transform_experience and transform_profile called on
\* one input; every later invocation is given the input of the first.
TransformRows ==
    /\ Len(transformed) < MaxTransforms
    /\ \E inp \in IF transformed = <<>> THEN TransformInputs
                   ELSE {transformed[1].input} :
        transformed' = Append(transformed,
            [input |-> inp, day |-> today, year |-> year,
             education |-> transform_education(inp.education_list, inp.linkedin_id),
             experience |-> transform_experience(inp.experience_list, inp.linkedin_id),
             profile |-> transform_profile(inp.harmonic_id, inp.linkedin_id,
                                           inp.education_list, inp.experience_list)])
    /\ UNCHANGED <<year, fetchVars, notifierVars, syncVars, detailVars>>

\* Midnight of 31 December passes: the date and the year both change.
NewYear ==
    /\ today < MaxDay
    /\ year < MaxYear
    /\ today' = today + 1
    /\ year' = year + 1
    /\ UNCHANGED <<messenger, seenKeys, delivered, invoked, transformed,
                   fetchVars, syncVars, detailVars>>

\* bq_client.insert_rows_json(table_ref, rows): a non-empty error list
\* (fails) leaves the table as it was.
insert_rows_json(tbls, t, rows, fails) ==
    IF fails THEN tbls ELSE [tbls EXCEPT ![t] = @ \o rows]

\* insert_education / insert_experience: nothing is sent for an empty list.
insert_list_counting(st, t, rows, fails) ==
    IF rows = <<>>
    THEN [st EXCEPT !.calls = Append(@, <<"insert", t>>), !.inserted = 0]
    ELSE [st EXCEPT !.calls = @ \o << <<"insert", t>>, <<"insert_rows_json", t>> >>,
                    !.tables = insert_rows_json(@, t, rows, fails),
                    !.inserted = Len(rows)]
insert_list(st, t, rows, fails) ==
    IF rows = <<>>
    THEN [st EXCEPT !.calls = Append(@, <<"insert", t>>), !.inserted = 0]
    ELSE [st EXCEPT !.calls = @ \o << <<"insert", t>>, <<"insert_rows_json", t>> >>,
                    !.tables = insert_rows_json(@, t, rows, fails),
                    !.inserted = IF fails THEN 0 ELSE Len(rows)]

\* insert_profile / insert_mapping: one row, always sent.
insert_one(st, t, row, fails) ==
    [st EXCEPT !.calls = @ \o << <<"insert", t>>, <<"insert_rows_json", t>> >>,
               !.tables = insert_rows_json(@, t, <<row>>, fails),
               !.inserted = IF fails THEN 0 ELSE 1]

NoEntry == [exists |-> FALSE, inserted |-> 0, skipped |-> FALSE]
SkipEntry == [exists |-> TRUE, inserted |-> 0, skipped |-> TRUE]

\* Lines 551-564: the mapping table.
SyncMapping_overwrite(st, hid, lid, full_name, dry_run, fails) ==
    LET st1 == [st EXCEPT !.calls = Append(@, <<"check", MappingTable>>)]
        row == [linkedin_id |-> lid, harmonic_id |-> hid, full_name |-> full_name]
        st2 == insert_one(st1, MappingTable, row, fails)
    IN IF dry_run
       THEN [st1 EXCEPT !.report = [@ EXCEPT ![MappingTable] =
                                       [NoEntry EXCEPT !.inserted = 1]]]
       ELSE [st2 EXCEPT !.report = [@ EXCEPT ![MappingTable] =
                                       [NoEntry EXCEPT !.inserted = st2.inserted]]]
SyncMapping(st, hid, lid, full_name, dry_run, fails) ==
    LET st1 == [st EXCEPT !.calls = Append(@, <<"check", MappingTable>>)]
    IN IF check_mapping_exists(st1.tables, lid)
       THEN [st1 EXCEPT !.report = [@ EXCEPT ![MappingTable] = SkipEntry]]
       ELSE IF dry_run
       THEN [st1 EXCEPT !.report = [@ EXCEPT ![MappingTable] =
                                       [NoEntry EXCEPT !.inserted = 1]]]
       ELSE LET row == [linkedin_id |-> lid, harmonic_id |-> hid,
                        full_name |-> full_name]
                st2 == insert_one(st1, MappingTable, row, fails)
            IN [st2 EXCEPT !.report = [@ EXCEPT ![MappingTable] =
                                       [NoEntry EXCEPT !.inserted = st2.inserted]]]

\* Lines 566-628: one content table (education, experience or profile).
SyncContent_wet(st, t, hid, lid, edu, exper, dry_run, fails) ==
    LET st1 == [st EXCEPT !.calls = Append(@, <<"check", t>>)]
    IN IF check_user_exists(st1.tables, t, lid)
       THEN [st1 EXCEPT !.report = [@ EXCEPT ![t] = SkipEntry]]
       ELSE LET rows == IF t = "linkedin_education" THEN transform_education(edu, lid)
                        ELSE IF t = "linkedin_experience"
                        THEN transform_experience(exper, lid)
                        ELSE <<transform_profile(hid, lid, edu, exper)>>
                st2 == [st1 EXCEPT !.calls = Append(@, <<"transform", t>>)]
                st3 == IF t = "linkedin_profile"
                       THEN insert_one(st2, t, rows[1], fails)
                       ELSE insert_list(st2, t, rows, fails)
            IN [st3 EXCEPT !.report = [@ EXCEPT ![t] =
                                       [NoEntry EXCEPT !.inserted = st3.inserted]]]
SyncContent(st, t, hid, lid, edu, exper, dry_run, fails) ==
    LET st1 == [st EXCEPT !.calls = Append(@, <<"check", t>>)]
    IN IF check_user_exists(st1.tables, t, lid)
       THEN [st1 EXCEPT !.report = [@ EXCEPT ![t] = SkipEntry]]
       ELSE LET rows == IF t = "linkedin_education" THEN transform_education(edu, lid)
                        ELSE IF t = "linkedin_experience"
                        THEN transform_experience(exper, lid)
                        ELSE <<transform_profile(hid, lid, edu, exper)>>
                st2 == [st1 EXCEPT !.calls = Append(@, <<"transform", t>>)]
            IN IF dry_run
               THEN [st2 EXCEPT !.report = [@ EXCEPT ![t] =
                                       [NoEntry EXCEPT !.inserted = Len(rows)]]]
               ELSE LET st3 == IF t = "linkedin_profile"
                               THEN insert_one(st2, t, rows[1], fails)
                               ELSE insert_list(st2, t, rows, fails)
                    IN [st3 EXCEPT !.report = [@ EXCEPT ![t] =
                                       [NoEntry EXCEPT !.inserted = st3.inserted]]]

\* The four tables in the order sync_person goes through them.
SyncOrder == <<MappingTable>> \o ContentTables

\* The lists get_full_profile hands back: n entries, or none when every
\* sub-fetch failed (HTTP 401 caught inside get_full_profile).
FetchedList(n, tokenValid) ==
    IF tokenValid THEN [i \in 1..n |-> Entry("missing", 0, None)] ELSE <<>>

\* sync_person(harmonic_id, linkedin_id, dry_run): the whole call.
sync_person(lid, dry_run, tokenValid, nEdu, nExp, failing, sendOK) ==
    LET hid == HarmonicId[lid]
        edu == FetchedList(nEdu, tokenValid)
        exper == FetchedList(nExp, tokenValid)
        full_name == IF tokenValid THEN Some("name") ELSE None
        st0 == [tables |-> tables, calls |-> <<>>, inserted |-> 0,
                report |-> [t \in TableNames |-> NoEntry]]
        st1 == SyncMapping(st0, hid, lid, full_name, dry_run, MappingTable \in failing)
        st2 == SyncContent(st1, ContentTables[1], hid, lid, edu, exper, dry_run,
                           ContentTables[1] \in failing)
        st3 == SyncContent(st2, ContentTables[2], hid, lid, edu, exper, dry_run,
                           ContentTables[2] \in failing)
        st4 == SyncContent(st3, ContentTables[3], hid, lid, edu, exper, dry_run,
                           ContentTables[3] \in failing)
        \* HTTP 401 on the three sub-fetches and on GetPersonLinkedIn
        n1 == notify_auth_failure(NotifierState, sendOK)
        n2 == notify_auth_failure(n1, sendOK)
        n3 == notify_auth_failure(n2, sendOK)
        n4 == notify_auth_failure(n3, sendOK)
    IN /\ runs < MaxRuns
       /\ runs' = runs + 1
       /\ tables' = st4.tables
       /\ calls' = st4.calls
       \* get_full_profile catches the failure of each sub-fetch and hands
       \* back empty lists, so the except of lines 536-539 is never entered
       \* and results["errors"] stays as it was created (line 530).
       /\ results' = Some([linkedin_id |-> lid, dry_run |-> dry_run,
                           fetch_failed |-> ~tokenValid, errors |-> <<>>,
                           fetched |-> <<edu, exper>>, before |-> tables,
                           report |-> st4.report])
       /\ IF tokenValid THEN UNCHANGED <<seenKeys, delivered, invoked>>
          ELSE SetNotifier(n4)
       /\ UNCHANGED <<messenger, today, fetchVars, transformVars, detailVars,
                      racePc, overlapped, wrote>>

SyncPerson ==
    \E lid \in LinkedinIds, dry_run \in BOOLEAN :
    \E failing \in IF dry_run THEN {{}} ELSE SUBSET TableNames :
        \/ \E nEdu \in 0..MaxListLen, nExp \in 0..MaxListLen :
              sync_person(lid, dry_run, TRUE, nEdu, nExp, failing, TRUE)
        \/ \E sendOK \in BOOLEAN :
              sync_person(lid, dry_run, FALSE, 0, 0, failing, sendOK)

\* --------------------------------- two sync_person runs, statement by statement
\* Two runs of sync_person(harmonic_id, linkedin_id) for the same person,
\* not dry, every insert accepted, each having fetched the same profile.  A
\* run goes through SyncOrder; for table k it first queries the warehouse
\* (check) and then, if it saw no row, transforms and inserts (insert).
Runs == {1, 2}
RaceId == CHOOSE lid \in LinkedinIds : TRUE
RaceList == FetchedList(MaxListLen, TRUE)

Running(p) == racePc[p] # "idle" /\ racePc[p] # "done"

AfterTable(k) == IF k < Len(SyncOrder) THEN <<k + 1, "check">> ELSE "done"

\* sync_person is entered (lines 509-549: the fetch).
SyncStart ==
    \E p \in Runs :
        /\ racePc[p] = "idle"
        /\ racePc' = [racePc EXCEPT ![p] = <<1, "check">>]
        /\ overlapped' = (overlapped \/ \E q \in Runs \ {p} : Running(q))
        /\ UNCHANGED <<tables, calls, results, runs, wrote>>
        /\ UNCHANGED <<fetchVars, notifierVars, transformVars, detailVars>>

\* check_mapping_exists / check_user_exists for the table the run is at.
SyncCheckStep_blind ==
    \E p \in Runs :
        /\ Running(p)
        /\ racePc[p][2] = "check"
        /\ LET k == racePc[p][1]
               t == SyncOrder[k]
               exists == t = MappingTable /\ check_mapping_exists(tables, RaceId)
           IN racePc' = [racePc EXCEPT ![p] = IF exists THEN AfterTable(k)
                                                ELSE <<k, "insert">>]
        /\ UNCHANGED <<tables, calls, results, runs, overlapped, wrote>>
        /\ UNCHANGED <<fetchVars, notifierVars, transformVars, detailVars>>
SyncCheckStep ==
    \E p \in Runs :
        /\ Running(p)
        /\ racePc[p][2] = "check"
        /\ LET k == racePc[p][1]
               t == SyncOrder[k]
               exists == IF t = MappingTable
                         THEN check_mapping_exists(tables, RaceId)
                         ELSE check_user_exists(tables, t, RaceId)
           IN racePc' = [racePc EXCEPT ![p] = IF exists THEN AfterTable(k)
                                                ELSE <<k, "insert">>]
        /\ UNCHANGED <<tables, calls, results, runs, overlapped, wrote>>
        /\ UNCHANGED <<fetchVars, notifierVars, transformVars, detailVars>>

\* The else branch of the table the run is at: transform, then insert.
SyncInsertStep ==
    \E p \in Runs :
        /\ Running(p)
        /\ racePc[p][2] = "insert"
        /\ LET k == racePc[p][1]
               t == SyncOrder[k]
               rows == IF t = MappingTable
                       THEN <<[linkedin_id |-> RaceId, harmonic_id |-> HarmonicId[RaceId],
                               full_name |-> Some("name")]>>
                       ELSE IF t = "linkedin_education"
                       THEN transform_education(RaceList, RaceId)
                       ELSE IF t = "linkedin_experience"
                       THEN transform_experience(RaceList, RaceId)
                       ELSE <<transform_profile(HarmonicId[RaceId], RaceId,
                                                RaceList, RaceList)>>
           IN /\ tables' = IF rows = <<>> THEN tables
                            ELSE insert_rows_json(tables, t, rows, FALSE)
              /\ wrote' = IF rows = <<>> THEN wrote ELSE wrote \cup {<<p, t>>}
              /\ racePc' = [racePc EXCEPT ![p] = AfterTable(k)]
        /\ UNCHANGED <<calls, results, runs, overlapped>>
        /\ UNCHANGED <<fetchVars, notifierVars, transformVars, detailVars>>

\* ================================================= HarmonicClient (client.py)
QueryForms == {"dict", "str"}
Statuses == {200, 401, 403, 500}

\* A successful page: edges, totalCount, pageInfo.  The server's cursor
\* after page p is p itself (distinct per page) or null; the totalCount it
\* reports with page p is p (a different value on every page) or null.
OkPages(p) ==
    {[status |-> 200, json |-> TRUE, errors |-> "none", shape |-> "ok",
      n |-> n, totalCount |-> t, hasNextPage |-> h, endCursor |-> c] :
        n \in 0..MaxPageLen, t \in {None, Some(p)},
        h \in BOOLEAN, c \in {None, Some(p)}}

\* pageInfo as the service sends it: endCursor is set exactly when
\* hasNextPage is true.
WellFormed(r) == r.hasNextPage <=> r.endCursor # None

\* The serialized text of a GraphQL errors list, told apart by the one
\* keyword it contains ("plain": none of them).
AuthKeywordsClient == {"unauthorized", "unauthenticated", "token", "expired",
                       "invalid", "forbidden", "401", "403"}
AuthKeywordsDetail == {"unauthorized", "unauthenticated", "token", "expired",
                       "forbidden"}
ErrorTexts == AuthKeywordsClient \cup {"plain"}
\* Error texts the paginated fetch is fed: a keyword of both lists, a keyword
\* of client.py's list only, no keyword.
PageErrorTexts == {"token", "invalid", "plain"}

\* Everything else the endpoint can answer: auth statuses, GraphQL error
\* lists with or without an auth keyword, bodies that are not JSON, bodies
\* without the result path ("missing"), bodies whose result has edges but no
\* pageInfo ("noPageInfo"), and a non-2xx status carrying a page.
OtherResponses ==
    {[status |-> st, json |-> j, errors |-> e, shape |-> sh,
      n |-> 1, totalCount |-> None, hasNextPage |-> FALSE, endCursor |-> None] :
        st \in Statuses, j \in BOOLEAN, e \in {"none"} \cup PageErrorTexts,
        sh \in {"ok", "missing", "noPageInfo"}}

Responses(p) ==
    {r \in OkPages(p) : WellFormed(r)}
    \cup {r \in OtherResponses :
            /\ ~r.json => (r.errors = "none" /\ r.shape = "missing")
            /\ r.errors # "none" => r.shape = "missing"
            /\ ~(r.status = 200 /\ r.json /\ r.errors = "none" /\ r.shape = "ok")}

\* any(keyword in error_str.lower() for keyword in auth_keywords), client.py
is_auth_error(text) == text \in AuthKeywordsClient

\* _check_and_notify_error(response, data): TRUE iff an error was detected;
\* the notifier is called on the way.
_check_and_notify_error_both(r, ns, sendOK) ==
    LET n1 == IF r.status \in {401, 403} THEN notify_auth_failure(ns, sendOK) ELSE ns
        n2 == IF r.errors = "none" THEN n1
              ELSE IF is_auth_error(r.errors) THEN notify_auth_failure(n1, sendOK)
              ELSE notify_api_error(n1, sendOK)
    IN [err |-> r.status \in {401, 403} \/ r.errors # "none", ns |-> n2]
_check_and_notify_error(r, ns, sendOK) ==
    IF r.status \in {401, 403}
    THEN [err |-> TRUE, ns |-> notify_auth_failure(ns, sendOK)]
    ELSE IF r.errors # "none"
    THEN [err |-> TRUE,
          ns |-> IF is_auth_error(r.errors) THEN notify_auth_failure(ns, sendOK)
                 ELSE notify_api_error(ns, sendOK)]
    ELSE [err |-> FALSE, ns |-> ns]

\* ---------------------------------------------------------------- pacing
\* timedelta(minutes=3), in seconds
LongBreakEvery == 180
\* random.uniform(60*3, 60*5)
LongDelayMin == 180
LongDelayMax == 300
\* random.uniform(2, 8)
ShortDelayMin == 2
ShortDelayMax == 8
\* What random.uniform hands back: one end of its range or the other.
Picks == {"min", "max"}
\* Seconds a request takes: no time, or as long as the long-break period.
Latencies == {0, LongBreakEvery}

\* _apply_human_like_delay(start_time, last_long_break), called at
\* current_time: the sleep taken, and the value its own parameter
\* last_long_break holds when it returns.
_apply_human_like_delay(llb, current_time, pick) ==
    IF current_time - llb >= LongBreakEvery
    THEN [at |-> current_time, long |-> TRUE,
          secs |-> IF pick = "min" THEN LongDelayMin ELSE LongDelayMax,
          last_long_break |-> current_time]
    ELSE [at |-> current_time, long |-> FALSE,
          secs |-> IF pick = "min" THEN ShortDelayMin ELSE ShortDelayMax,
          last_long_break |-> llb]

\* edges of the page: n records not seen before, in server order.
Edges(r, have) == [i \in 1..r.n |-> have + i]

\* if total_count is None: total_count = search_companies.get("totalCount")
NextTotal_overwrite(tc, pageTotal) == pageTotal
NextTotal(tc, pageTotal) == IF tc = None THEN pageTotal ELSE tc

\* if len(current_batch) >= batch_size: save; current_batch = []; batch_number += 1
FlushedFiles(files, cb, bs, bn) ==
    IF Len(cb) >= bs THEN Append(files, [number |-> bn, data |-> cb]) ELSE files

NextBatch_keep(cb, bs) == cb
NextBatch(cb, bs) == IF Len(cb) >= bs THEN <<>> ELSE cb

NextBatchNumber_same(cb, bs, bn) == bn
NextBatchNumber(cb, bs, bn) == IF Len(cb) >= bs THEN bn + 1 ELSE bn

\* if current_batch: self._save_companies_to_json(current_batch, batch_number)
RemainderFiles_skip(files, cb, bn) == files
RemainderFiles(files, cb, bn) ==
    IF cb # <<>> THEN Append(files, [number |-> bn, data |-> cb]) ELSE files

\* Line 148 / 297: the delay taken once the cursor is advanced and page is
\* incremented, logged with the number of requests made so far and the
\* cursor the payload then carries.
NextDelays_skip(ds, d, nreq, cursor) == ds
NextDelays(ds, d, nreq, cursor) ==
    Append(ds, [at |-> d.at, long |-> d.long, secs |-> d.secs,
                request |-> nreq, cursor |-> cursor])

\* Entry of the call: locals of lines 96-100, payload of lines 91-94 / 245.
Enter(o, hasVars, mp, bs) ==
    /\ pc = "idle"
    /\ pc' = "loop"
    /\ op' = o
    /\ max_pages' = mp
    /\ batch_size' = bs
    /\ payload' = [hasVariables |-> hasVars, after |-> None]
    /\ all_edges' = <<>>
    /\ total_count' = None
    /\ page' = 1
    /\ current_batch' = <<>>
    /\ batch_number' = 1
    /\ last_long_break' = now
    /\ delays' = <<>>
    /\ UNCHANGED <<batchFiles, outputFile, requests, responses, classified,
                   ret, stop, exc, now>>
    /\ UNCHANGED <<notifierVars, syncVars, transformVars, detailVars>>

\* get_company_saved_search_results(query, max_pages, batch_size), entry.
CallCompanies ==
    \E q \in QueryForms, mp \in 1..MaxPages, bs \in 0..MaxBatch :
        Enter("companies", q = "dict", mp, bs)

\* search_people(query, max_pages, batch_size), entry: payload = {"query": query}.
CallPeople ==
    \E mp \in 1..MaxPages, bs \in 0..MaxBatch :
        Enter("people", FALSE, mp, bs)

\* The call leaves by an exception: nothing after the raising line runs.
Raise(name, edges, tc, cb, bn, files) ==
    /\ pc' = "raised"
    /\ exc' = name
    /\ stop' = "exception"
    /\ all_edges' = edges
    /\ total_count' = tc
    /\ current_batch' = cb
    /\ batch_number' = bn
    /\ batchFiles' = files
    /\ UNCHANGED <<outputFile, ret, page, payload, now, last_long_break, delays>>

\* A break, then lines 150-164: remainder flush, consolidated write, return.
BreakAndReturn_successful(reason, edges, tc, cb, bn, files) ==
    /\ pc' = "returned"
    /\ stop' = reason
    /\ all_edges' = edges
    /\ total_count' = tc
    /\ current_batch' = cb
    /\ batch_number' = bn
    /\ batchFiles' = RemainderFiles(files, cb, bn)
    /\ outputFile' = Some(edges)
    /\ ret' = Some([total_count |-> tc, records |-> edges,
                    pages_fetched |-> IF reason = "error" THEN page - 1 ELSE page])
    /\ UNCHANGED <<exc, page, payload, now, last_long_break, delays>>
BreakAndReturn(reason, edges, tc, cb, bn, files) ==
    /\ pc' = "returned"
    /\ stop' = reason
    /\ all_edges' = edges
    /\ total_count' = tc
    /\ current_batch' = cb
    /\ batch_number' = bn
    /\ batchFiles' = RemainderFiles(files, cb, bn)
    /\ outputFile' = Some(edges)
    /\ ret' = Some([total_count |-> tc, records |-> edges, pages_fetched |-> page])
    /\ UNCHANGED <<exc, page, payload, now, last_long_break, delays>>

\* One iteration of `while True` (lines 108-148 / 257-297), through to the
\* return or the exception when the iteration ends the call.  The request
\* takes lat seconds; `now` is the clock as the call last read it.
Iterate(r, sendOK, lat, pick) ==
    /\ pc = "loop"
    /\ requests' = Append(requests, payload)
    /\ responses' = Append(responses, r)
    /\ UNCHANGED <<op, max_pages, batch_size, messenger, today, syncVars,
                   transformVars, detailVars>>
    /\ IF ~r.json
       THEN \* data = response.json() raises
            /\ Raise("JSONDecodeError", all_edges, total_count, current_batch,
                     batch_number, batchFiles)
            /\ classified' = Append(classified, "unchecked")
            /\ UNCHANGED <<seenKeys, delivered, invoked>>
       ELSE LET chk == _check_and_notify_error(r, NotifierState, sendOK) IN
            /\ SetNotifier(chk.ns)
            /\ classified' = Append(classified, IF chk.err THEN "error" ELSE "ok")
            /\ IF chk.err
               THEN BreakAndReturn("error", all_edges, total_count,
                                   current_batch, batch_number, batchFiles)
               ELSE IF r.shape = "missing"
               THEN \* data["data"][...]["edges"] raises
                    Raise("KeyError", all_edges, total_count, current_batch,
                          batch_number, batchFiles)
               ELSE LET edges == Edges(r, Len(all_edges))
                        ae == all_edges \o edges
                        cb1 == current_batch \o edges
                        tc == NextTotal(total_count, r.totalCount)
                        files == FlushedFiles(batchFiles, cb1, batch_size, batch_number)
                        cb == NextBatch(cb1, batch_size)
                        bn == NextBatchNumber(cb1, batch_size, batch_number)
                        slept == IF delays = <<>> THEN 0 ELSE delays[Len(delays)].secs
                        d == _apply_human_like_delay(last_long_break,
                                                     now + slept + lat, pick)
                    IN IF r.shape = "noPageInfo"
                       THEN \* search_companies["pageInfo"] raises
                            Raise("KeyError", ae, tc, cb, bn, files)
                       ELSE IF ~r.hasNextPage
                       THEN BreakAndReturn("exhausted", ae, tc, cb, bn, files)
                       ELSE IF page >= max_pages
                       THEN BreakAndReturn("page_limit", ae, tc, cb, bn, files)
                       ELSE IF ~payload.hasVariables
                       THEN \* payload["variables"]["after"] = ... raises
                            Raise("KeyError", ae, tc, cb, bn, files)
                       ELSE /\ payload' = [payload EXCEPT !.after = r.endCursor]
                            /\ page' = page + 1
                            /\ pc' = "loop"
                            /\ all_edges' = ae
                            /\ total_count' = tc
                            /\ current_batch' = cb
                            /\ batch_number' = bn
                            /\ batchFiles' = files
                            /\ now' = d.at
                            /\ delays' = NextDelays(delays, d, Len(requests) + 1,
                                                    r.endCursor)
                            \* line 341 rebinds the callee's parameter only
                            /\ last_long_break' = last_long_break
                            /\ UNCHANGED <<outputFile, ret, stop, exc>>

\* get_company_saved_search_results: one pass of its loop, requests
\* answering at once and random.uniform at the low end of its range.
CompaniesPage ==
    /\ op = "companies"
    /\ \E r \in Responses(page), sendOK \in BOOLEAN : Iterate(r, sendOK, 0, "min")

\* search_people: one pass of its loop.
PeoplePage ==
    /\ op = "people"
    /\ \E r \in Responses(page), sendOK \in BOOLEAN : Iterate(r, sendOK, 0, "min")

\* Plain pages of one record, for the runs that explore the clock.
PacedResponses(p) == {r \in OkPages(p) : WellFormed(r) /\ r.n = 1 /\ r.totalCount = None}

\* get_company_saved_search_results: one pass of its loop, the request
\* taking any of Latencies and random.uniform landing on either end.
PacedCompaniesPage ==
    /\ op = "companies"
    /\ \E r \in PacedResponses(page), lat \in Latencies, pick \in Picks :
            Iterate(r, TRUE, lat, pick)

\* search_people: the same.
PacedPeoplePage ==
    /\ op = "people"
    /\ \E r \in PacedResponses(page), lat \in Latencies, pick \in Picks :
            Iterate(r, TRUE, lat, pick)

\* ====================================================== detail-fetch clients
\* What the endpoint can answer to one detail request: no answer at all
\* (requests.post raises), HTTP 401, HTTP 500, a 200 whose body is not JSON,
\* a 200 with an errors list (with or without data next to it), a 200 with
\* data only.
DetailResponses ==
    {[kind |-> k, text |-> "none", hasData |-> FALSE, n |-> 0] :
        k \in {"transport", "401", "500", "nonjson"}}
    \cup {[kind |-> "errors", text |-> t, hasData |-> h, n |-> IF h THEN 1 ELSE 0] :
            t \in ErrorTexts, h \in BOOLEAN}
    \cup {[kind |-> "ok", text |-> "none", hasData |-> TRUE, n |-> n] :
            n \in 0..MaxListLen}

\* The responses get_full_profile's three sub-fetches are fed.
ProfileResponses ==
    {r \in DetailResponses :
        r.kind = "errors" => (r.text \in {"token", "plain"} /\ r.hasData)}

\* The client as one record: the notifier and the requests posted so far.
ClientState == [ns |-> NotifierState, requests |-> <<>>]

\* any(kw in error_str.lower() for kw in auth_keywords), the detail clients
is_auth_error_detail(text) == text \in AuthKeywordsDetail

\* _make_request(operation_name, payload) of the detail clients (the same
\* text in get_full_profile.py, get_education.py, get_experience.py,
\* get_profile.py and search_name.py).
_make_request(operation_name, resp, cs, sendOK) ==
    LET cs1 == [cs EXCEPT !.requests = Append(@, operation_name)]
    IN IF resp.kind = "transport"
       THEN [raised |-> "ConnectionError", cs |-> cs1]
       ELSE IF resp.kind = "401"
       THEN [raised |-> "HTTPError",
             cs |-> [cs1 EXCEPT !.ns = notify_auth_failure(@, sendOK)]]
       ELSE IF resp.kind = "500"
       THEN [raised |-> "HTTPError", cs |-> cs1]
       ELSE IF resp.kind = "nonjson"
       THEN [raised |-> "JSONDecodeError", cs |-> cs1]
       ELSE IF resp.kind = "errors"
       THEN [raised |-> "none",
             cs |-> [cs1 EXCEPT !.ns = IF is_auth_error_detail(resp.text)
                                       THEN notify_auth_failure(@, sendOK)
                                       ELSE notify_api_error(@, sendOK)]]
       ELSE [raised |-> "none", cs |-> cs1]

\* data.get("data", {}).get(...).get(<list>, [])
DataList(resp) == [i \in 1..resp.n |-> i]

\* data = self._make_request(...); if "errors" in data: raise Exception(...)
QueryOrRaise_lenient(operation_name, resp, cs, sendOK) ==
    LET mr == _make_request(operation_name, resp, cs, sendOK)
    IN IF mr.raised # "none"
       THEN [raised |-> mr.raised, value |-> <<>>, cs |-> mr.cs]
       ELSE [raised |-> "none", value |-> DataList(resp), cs |-> mr.cs]
QueryOrRaise(operation_name, resp, cs, sendOK) ==
    LET mr == _make_request(operation_name, resp, cs, sendOK)
    IN IF mr.raised # "none"
       THEN [raised |-> mr.raised, value |-> <<>>, cs |-> mr.cs]
       ELSE IF resp.kind = "errors"
       THEN [raised |-> "Exception", value |-> <<>>, cs |-> mr.cs]
       ELSE [raised |-> "none", value |-> DataList(resp), cs |-> mr.cs]

\* HarmonicFullProfileClient.get_education / get_experience
get_education(resp, cs, sendOK) == QueryOrRaise("GetPersonEducation", resp, cs, sendOK)
get_experience(resp, cs, sendOK) == QueryOrRaise("GetPersonExperience", resp, cs, sendOK)
\* HarmonicEducationClient.get_person_education
get_person_education(resp, cs, sendOK) ==
    QueryOrRaise("GetPersonEducation", resp, cs, sendOK)
\* HarmonicExperienceClient.get_person_experience
get_person_experience(resp, cs, sendOK) ==
    QueryOrRaise("GetPersonExperience", resp, cs, sendOK)
\* HarmonicProfileClient.get_person_experience
profile_get_person_experience(resp, cs, sendOK) ==
    QueryOrRaise("GetPersonExperience", resp, cs, sendOK)
\* HarmonicSearchClient.search
search(resp, cs, sendOK) ==
    QueryOrRaise("TypeaheadSearchWithInvestors", resp, cs, sendOK)

\* HarmonicFullProfileClient.get_person_highlights: if "errors" in data: return []
get_person_highlights_raising(resp, cs, sendOK) ==
    QueryOrRaise("GetPersonProfileHeader", resp, cs, sendOK)
get_person_highlights(resp, cs, sendOK) ==
    LET mr == _make_request("GetPersonProfileHeader", resp, cs, sendOK)
    IN IF mr.raised # "none"
       THEN [raised |-> mr.raised, value |-> <<>>, cs |-> mr.cs]
       ELSE IF resp.kind = "errors"
       THEN [raised |-> "none", value |-> <<>>, cs |-> mr.cs]
       ELSE [raised |-> "none", value |-> DataList(resp), cs |-> mr.cs]

\* HarmonicToBigQuerySync._search_people / get_linkedin_id_from_harmonic:
\* the request is inside try/except Exception, an errors list is always
\* reported with notify_api_error, and whatever data there is is returned.
SyncHelperRequest(operation_name, resp, cs, sendOK) ==
    LET cs1 == [cs EXCEPT !.requests = Append(@, operation_name)]
    IN IF resp.kind = "401"
       THEN [raised |-> "none", value |-> <<>>,
             cs |-> [cs1 EXCEPT !.ns = notify_auth_failure(@, sendOK)]]
       ELSE IF resp.kind \in {"transport", "500", "nonjson"}
       THEN [raised |-> "none", value |-> <<>>, cs |-> cs1]
       ELSE IF resp.kind = "errors"
       THEN [raised |-> "none", value |-> DataList(resp),
             cs |-> [cs1 EXCEPT !.ns = notify_api_error(@, sendOK)]]
       ELSE [raised |-> "none", value |-> DataList(resp), cs |-> cs1]

_search_people(resp, cs, sendOK) ==
    SyncHelperRequest("TypeaheadSearchWithInvestors", resp, cs, sendOK)
get_linkedin_id_from_harmonic(resp, cs, sendOK) ==
    SyncHelperRequest("GetPersonLinkedIn", resp, cs, sendOK)

\* get_full_profile(person_id): three sub-fetches, each in its own
\* try/except Exception; the profile dict is always returned.
get_full_profile(r1, r2, r3, cs, sendOK) ==
    LET h == get_person_highlights(r1, cs, sendOK)
        e == get_education(r2, h.cs, sendOK)
        x == get_experience(r3, e.cs, sendOK)
    IN [raised |-> "none",
        value |-> [highlights |-> IF h.raised = "none" THEN h.value ELSE <<>>,
                   education |-> IF e.raised = "none" THEN e.value ELSE <<>>,
                   experience |-> IF x.raised = "none" THEN x.value ELSE <<>>,
                   errors |-> (IF h.raised = "none" THEN <<>> ELSE <<"Highlights">>)
                              \o (IF e.raised = "none" THEN <<>> ELSE <<"Education">>)
                              \o (IF x.raised = "none" THEN <<>> ELSE <<"Experience">>)],
        cs |-> x.cs]

\* Categories of the notifier invocations a call added, in order.
Notified(ns) ==
    [i \in 1..(Len(ns.invoked) - Len(invoked)) |-> ns.invoked[Len(invoked) + i].cat]

\* One call of a detail operation, from outside, on a fresh client.
Record(client, name, resps, out) ==
    /\ detail' = Some([client |-> client, op |-> name, resps |-> resps,
                       raised |-> out.raised, value |-> out.value,
                       requests |-> out.cs.requests,
                       notified |-> Notified(out.cs.ns)])
    /\ SetNotifier(out.cs.ns)
    /\ UNCHANGED <<messenger, today, fetchVars, syncVars, transformVars>>

CallGetEducation ==
    /\ detail = None
    /\ \E resp \in DetailResponses, sendOK \in BOOLEAN :
        Record("detail", "get_education", <<resp>>,
               get_education(resp, ClientState, sendOK))

CallGetExperience ==
    /\ detail = None
    /\ \E resp \in DetailResponses, sendOK \in BOOLEAN :
        Record("detail", "get_experience", <<resp>>,
               get_experience(resp, ClientState, sendOK))

CallGetPersonHighlights ==
    /\ detail = None
    /\ \E resp \in DetailResponses, sendOK \in BOOLEAN :
        Record("detail", "get_person_highlights", <<resp>>,
               get_person_highlights(resp, ClientState, sendOK))

CallGetPersonEducation ==
    /\ detail = None
    /\ \E resp \in DetailResponses, sendOK \in BOOLEAN :
        Record("detail", "get_person_education", <<resp>>,
               get_person_education(resp, ClientState, sendOK))

CallGetPersonExperience ==
    /\ detail = None
    /\ \E resp \in DetailResponses, sendOK \in BOOLEAN :
        Record("detail", "get_person_experience", <<resp>>,
               get_person_experience(resp, ClientState, sendOK))

CallProfileGetPersonExperience ==
    /\ detail = None
    /\ \E resp \in DetailResponses, sendOK \in BOOLEAN :
        Record("detail", "profile_get_person_experience", <<resp>>,
               profile_get_person_experience(resp, ClientState, sendOK))

CallSearch ==
    /\ detail = None
    /\ \E resp \in DetailResponses, sendOK \in BOOLEAN :
        Record("detail", "search", <<resp>>, search(resp, ClientState, sendOK))

CallSearchPeopleHelper ==
    /\ detail = None
    /\ \E resp \in DetailResponses, sendOK \in BOOLEAN :
        Record("sync", "_search_people", <<resp>>,
               _search_people(resp, ClientState, sendOK))

CallGetLinkedinId ==
    /\ detail = None
    /\ \E resp \in DetailResponses, sendOK \in BOOLEAN :
        Record("sync", "get_linkedin_id_from_harmonic", <<resp>>,
               get_linkedin_id_from_harmonic(resp, ClientState, sendOK))

\* The (response, data) pairs _check_and_notify_error is handed: the parsed
\* detail responses, and HTTP 401 / 403 whose body is JSON, with or without
\* an errors list in it.
CheckedResponses ==
    {r \in DetailResponses : r.kind \in {"401", "500", "errors", "ok"}}
    \cup {[kind |-> k, text |-> t, hasData |-> FALSE, n |-> 0] :
            k \in {"401", "403"}, t \in {"none"} \cup PageErrorTexts}

\* HarmonicClient._check_and_notify_error called on one parsed response; the
\* value recorded is the bool it returns.
CallCheckAndNotifyError ==
    /\ detail = None
    /\ \E resp \in CheckedResponses, sendOK \in BOOLEAN :
        LET r == [status |-> IF resp.kind = "401" THEN 401
                             ELSE IF resp.kind = "403" THEN 403
                             ELSE IF resp.kind = "500" THEN 500 ELSE 200,
                  errors |-> resp.text]
            chk == _check_and_notify_error(r, NotifierState, sendOK)
        IN Record("paginated", "_check_and_notify_error", <<resp>>,
                  [raised |-> "none", value |-> <<chk.err>>,
                   cs |-> [ns |-> chk.ns, requests |-> <<>>]])

CallGetFullProfile ==
    /\ detail = None
    /\ \E r1 \in ProfileResponses, r2 \in ProfileResponses, r3 \in ProfileResponses,
          sendOK \in BOOLEAN :
        Record("detail", "get_full_profile", <<r1, r2, r3>>,
               get_full_profile(r1, r2, r3, ClientState, sendOK))

\* ================================================================ properties
\* Records written to the batch files, batch by batch, in write order.
BatchData == [i \in DOMAIN batchFiles |-> batchFiles[i].data]

\* A response that the loop takes as a page (reaches line 119 and passes it).
IsPage(r) == r.json /\ r.status \notin {401, 403} /\ r.errors = "none" /\ r.shape = "ok"

RECURSIVE SumN(_)
SumN(rs) == IF rs = <<>> THEN 0 ELSE (IF IsPage(Head(rs)) THEN Head(rs).n ELSE 0) + SumN(Tail(rs))

\* The records carried by the first k responses, in fetch order.
RecordsOf(k) == [j \in 1..SumN(SubSeq(responses, 1, k)) |-> j]

\* C1 - Batch completeness: when the paginated fetch returns (batch_size >= 1),
\* the batches written, concatenated in write order, are exactly the returned
\* record list: same records, same order, none lost, none duplicated.
C1_BatchCompleteness ==
    (pc = "returned" /\ batch_size >= 1)
        => /\ Flatten(BatchData) = ret[1].records
           /\ ret[1].records = RecordsOf(Len(responses))

\* C1 witness: a returned call that flushed inside the loop and flushed a
\* remainder, over several pages.
C1_Witness ==
    /\ pc = "returned" /\ batch_size = 2 /\ Len(responses) = 3
    /\ Len(batchFiles) = 2 /\ Len(ret[1].records) = 3
    /\ current_batch # <<>>

\* C9 - Batch numbering: the batches written carry numbers 1, 2, ..., N in
\* write order, no gap, no number twice, the remainder batch included.
C9_BatchNumbering ==
    \A i \in DOMAIN batchFiles : batchFiles[i].number = i

\* C9 witness: two in-loop flushes followed by a remainder flush.
C9_Witness ==
    /\ pc = "returned" /\ Len(batchFiles) = 3 /\ current_batch # <<>>
    /\ batch_size = 2 /\ batchFiles[3].data = current_batch

\* First non-null totalCount among the pages processed, in fetch order.
RECURSIVE FirstTotal(_)
FirstTotal(rs) ==
    IF rs = <<>> THEN None
    ELSE IF IsPage(Head(rs)) /\ Head(rs).totalCount # None THEN Head(rs).totalCount
    ELSE FirstTotal(Tail(rs))

\* C8 - Total-count stability: total_count is the first non-null totalCount
\* observed on any page in fetch order; a later page never changes it.
C8_TotalCountStable ==
    /\ total_count = FirstTotal(responses)
    /\ pc = "returned" => ret[1].total_count = FirstTotal(responses)

\* C8 witness: a later page reports a different non-null totalCount.
C8_Witness ==
    /\ pc = "returned" /\ Len(responses) = 3
    /\ responses[1].totalCount = None
    /\ responses[2].totalCount = Some(2)
    /\ responses[3].totalCount = Some(3)
    /\ IsPage(responses[3])
    /\ ret[1].total_count = Some(2)

Finished == pc \in {"returned", "raised"}

\* Number of notify_auth_failure invocations so far.
AuthInvocations == Cardinality({i \in DOMAIN invoked : invoked[i].cat = "auth"})

\* C2 - Termination determinism: with max_pages = N >= 1 and every page
\* reporting hasNextPage = true, the finished call has issued exactly N
\* requests and stopped at the page limit, not on an error.
C2_TerminationDeterminism ==
    (Finished /\ \A i \in DOMAIN responses :
                    IsPage(responses[i]) /\ responses[i].status = 200
                    /\ responses[i].hasNextPage)
        => /\ Len(requests) = max_pages
           /\ pc = "returned"
           /\ stop = "page_limit"

\* C2, the part of the claim the code keeps: the same statement for a query
\* given as a dict with a variables object.
C2_DictQueryOnly == payload.hasVariables => C2_TerminationDeterminism

\* C3 - Cursor monotonicity: after a page i that is not the last one to fetch
\* (hasNextPage = true, non-null endCursor, i < max_pages), the cursor is set
\* to that page's endCursor and the request for page i+1 carries it, for a
\* dict query and for a plain query string alike.
C3_CursorMonotonicity ==
    \A i \in DOMAIN responses :
        (IsPage(responses[i]) /\ responses[i].hasNextPage
         /\ responses[i].endCursor # None /\ i < max_pages)
            => IF i < Len(requests)
               THEN requests[i + 1].hasVariables
                    /\ requests[i + 1].after = responses[i].endCursor
               ELSE pc = "loop" /\ payload.hasVariables
                    /\ payload.after = responses[i].endCursor

\* C3, the part of the claim the code keeps: dict queries only.
C3_DictQueryOnly == payload.hasVariables => C3_CursorMonotonicity

\* C4 - Auth short-circuit: page 1 succeeds, the request for page 2 answers
\* HTTP 401 (JSON body): the call returns pages_fetched = 1, page 1's records,
\* ended by error, one auth notification dispatched, no third request.
C4_AuthShortCircuit ==
    (Len(responses) >= 2 /\ IsPage(responses[1])
     /\ responses[2].status = 401 /\ responses[2].json)
        => /\ pc = "returned"
           /\ ret[1].pages_fetched = 1
           /\ ret[1].records = RecordsOf(1)
           /\ stop = "error"
           /\ AuthInvocations = 1
           /\ Len(requests) = 2

\* C4 without the page count: everything else the claim says holds.
C4_ExceptPageCount ==
    (Len(responses) >= 2 /\ IsPage(responses[1])
     /\ responses[2].status = 401 /\ responses[2].json)
        => /\ pc = "returned"
           /\ ret[1].pages_fetched = 2
           /\ ret[1].records = RecordsOf(1)
           /\ stop = "error"
           /\ AuthInvocations = 1
           /\ Len(requests) = 2

\* The scenario of C10 as far as it has been fetched: full pages that
\* announce a next page below the page limit, closed by a shorter last page.
FlushScenario ==
    /\ batch_size >= 2
    /\ responses # <<>>
    /\ responses[1].totalCount # None
    /\ \A i \in DOMAIN responses :
        /\ IsPage(responses[i]) /\ responses[i].status = 200
        /\ \/ responses[i].n = batch_size /\ responses[i].hasNextPage /\ i < max_pages
           \/ /\ i = Len(responses) /\ ~responses[i].hasNextPage
              /\ responses[i].n >= 1 /\ responses[i].n < batch_size

\* C10 - End-to-end flush pattern: full pages followed by a shorter last
\* page give one in-loop batch per full page, one remainder batch with the
\* last page's records, page 1's total_count, and an end by hasNextPage = false.
C10_FlushPattern ==
    (Finished /\ FlushScenario)
        => /\ pc = "returned"
           /\ stop = "exhausted"
           /\ Len(batchFiles) = Len(responses)
           /\ \A i \in 1..(Len(batchFiles) - 1) : Len(batchFiles[i].data) = batch_size
           /\ batchFiles[Len(batchFiles)].data = current_batch
           /\ Len(current_batch) = responses[Len(responses)].n
           /\ ret[1].total_count = responses[1].totalCount

\* C10, the part of the claim the code keeps: dict queries only.
C10_DictQueryOnly == payload.hasVariables => C10_FlushPattern

\* Rows a table holds for a linkedin_id.
RowsFor(tbls, t, lid) == {i \in DOMAIN tbls[t] : tbls[t][i].linkedinId = lid}

\* C5 - Idempotent sync skip: for each of linkedin_education,
\* linkedin_experience, linkedin_profile, when the table already holds rows
\* for the linkedin_id, sync_person calls neither the transform nor the insert
\* for it, reports exists = true, skipped = true, inserted = 0, and leaves the
\* table's rows as they were, whatever was fetched and with or without dry_run.
C5_IdempotentSkip ==
    results # None =>
        \A t \in Range(ContentTables) :
            RowsFor(results[1].before, t, results[1].linkedin_id) # {}
                => /\ <<"transform", t>> \notin Range(calls)
                   /\ <<"insert", t>> \notin Range(calls)
                   /\ <<"insert_rows_json", t>> \notin Range(calls)
                   /\ <<"check", t>> \in Range(calls)
                   /\ results[1].report[t] = SkipEntry
                   /\ tables[t] = results[1].before[t]

\* C5 witness: a real (not dry) run with fetched entries that finds rows in
\* every content table and skips all three.
C5_Witness ==
    /\ results # None
    /\ ~results[1].dry_run
    /\ results[1].fetched[1] # <<>> /\ results[1].fetched[2] # <<>>
    /\ \A t \in Range(ContentTables) :
        /\ RowsFor(results[1].before, t, results[1].linkedin_id) # {}
        /\ results[1].report[t].skipped

\* Notifications delivered / invocations made, per category and day.
DeliveredOn(c, d) ==
    Cardinality({i \in DOMAIN delivered : delivered[i].cat = c /\ delivered[i].day = d})
InvokedOn(c, d) ==
    Cardinality({i \in DOMAIN invoked : invoked[i].cat = c /\ invoked[i].day = d})
SentOn(c, d) ==
    \E i \in DOMAIN invoked : invoked[i].cat = c /\ invoked[i].day = d /\ invoked[i].ok

Categories == {"auth", "api"}

\* C6 as stated - Notification de-duplication: per category and day at most
\* one notification is delivered, and two or more invocations on a day deliver
\* exactly one, each category and each day on its own.
C6_Original ==
    \A c \in Categories, d \in 1..MaxDay :
        /\ DeliveredOn(c, d) <= 1
        /\ InvokedOn(c, d) >= 2 => DeliveredOn(c, d) = 1

\* C6 amended - per category and day at most one notification is delivered;
\* exactly one is delivered if and only if the messenger is available and at
\* least one send of that category on that day went through, independently
\* of the other category and of the other days.
C6_Dedup ==
    \A c \in Categories, d \in 1..MaxDay :
        /\ DeliveredOn(c, d) <= 1
        /\ DeliveredOn(c, d) = 1 <=> SentOn(c, d)

\* C6 witness: two auth failures on day 1 and one on day 2, an api error on
\* day 1: one auth notification per day, one api notification.
C6_Witness ==
    /\ InvokedOn("auth", 1) = 2 /\ InvokedOn("auth", 2) = 1
    /\ InvokedOn("api", 1) = 1
    /\ \A i \in DOMAIN invoked : invoked[i].ok
    /\ DeliveredOn("auth", 1) = 1 /\ DeliveredOn("auth", 2) = 1
    /\ DeliveredOn("api", 1) = 1

\* Rows with the date stamp blanked.
Undated(rows) == [i \in DOMAIN rows |-> [rows[i] EXCEPT !.date = 0]]

\* C11 as stated - Deterministic row derivation: two invocations of the three
\* transforms on the same input produce the same rows in the same order, the
\* synthetic identifiers included, in every field other than the date stamp.
C11_Original ==
    \A i, j \in DOMAIN transformed :
        transformed[i].input = transformed[j].input
            => /\ Undated(transformed[i].education) = Undated(transformed[j].education)
               /\ Undated(transformed[i].experience) = Undated(transformed[j].experience)
               /\ [transformed[i].profile EXCEPT !.date = 0]
                    = [transformed[j].profile EXCEPT !.date = 0]

\* C11 amended - the same, in every field other than the date stamp and the
\* profile row's student flag (which follows the year of the call); the
\* education and position URNs and the tracking id are built from linkedin_id
\* and the zero-based row index alone.
C11_DeterministicRows ==
    \A i, j \in DOMAIN transformed :
        transformed[i].input = transformed[j].input
            => /\ Undated(transformed[i].education) = Undated(transformed[j].education)
               /\ Undated(transformed[i].experience) = Undated(transformed[j].experience)
               /\ [transformed[i].profile EXCEPT !.date = 0, !.student = FALSE]
                    = [transformed[j].profile EXCEPT !.date = 0, !.student = FALSE]
               /\ \A k \in DOMAIN transformed[i].education :
                    /\ transformed[i].education[k].entityUrn
                         = <<"fs_education", transformed[i].input.linkedin_id, k - 1>>
                    /\ transformed[i].education[k].school_trackingId
                         = <<"harmonic", transformed[i].input.linkedin_id, k - 1>>
               /\ \A k \in DOMAIN transformed[i].experience :
                    transformed[i].experience[k].entityUrn
                        = <<"fs_position", transformed[i].input.linkedin_id, k - 1>>

\* C11 witness: the same non-empty input transformed on two days of two
\* different years, the student flag differing between the two.
C11_Witness ==
    /\ Len(transformed) = 2
    /\ transformed[1].input = transformed[2].input
    /\ transformed[1].education # <<>> /\ transformed[1].experience # <<>>
    /\ transformed[1].day # transformed[2].day
    /\ transformed[1].year # transformed[2].year
    /\ transformed[1].profile.student /\ ~transformed[2].profile.student

\* The moment of the last long break taken before delay i, the start of the
\* call (the clock's first reading) when there was none.
RECURSIVE LastLongBefore(_)
LastLongBefore(i) ==
    IF i <= 1 THEN 0
    ELSE IF delays[i - 1].long THEN delays[i - 1].at
    ELSE LastLongBefore(i - 1)

\* The delays taken are the ones the claim of C12 describes: long (180 to
\* 300 s) exactly when 3 minutes have passed since the last long break began,
\* short (2 to 8 s) otherwise, and two long breaks in a row are never less
\* than 3 minutes apart.
C12_DelaysAsClaimed ==
    /\ \A i \in DOMAIN delays :
        /\ delays[i].long <=> delays[i].at - LastLongBefore(i) >= 180
        /\ delays[i].long => delays[i].secs >= 180 /\ delays[i].secs <= 300
        /\ ~delays[i].long => delays[i].secs >= 2 /\ delays[i].secs <= 8
    /\ \A i \in 1..(Len(delays) - 1) :
        (delays[i].long /\ delays[i + 1].long)
            => delays[i + 1].at - delays[i].at >= 180

\* C12 - Pacer long-break reset: once 3 minutes have passed since the last
\* long break the next delay is a long one and the caller's last-long-break
\* reference point is reset to that moment; delays less than 3 minutes after
\* a long break are short, and long breaks never come on two consecutive
\* page transitions less than 3 minutes apart.
C12_PacerReset ==
    /\ C12_DelaysAsClaimed
    /\ last_long_break = LastLongBefore(Len(delays) + 1)

\* C13 - Missing fields do not crash the page fetch: a 200 response whose
\* JSON body has no errors but lacks data, the result object, edges or
\* pageInfo does not make the fetch raise; the fetch returns normally, ended
\* as by hasNextPage = false, with the records accumulated before (a body
\* without edges adds none).
C13_MissingFields ==
    \A i \in DOMAIN responses :
        (responses[i].status = 200 /\ responses[i].json
         /\ responses[i].errors = "none" /\ responses[i].shape # "ok")
            => /\ pc = "returned"
               /\ exc = "none"
               /\ stop = "exhausted"
               /\ responses[i].shape = "missing"
                    => ret[1].records = RecordsOf(i - 1)

\* C14 - HTTP status classification: a 401/403 response triggers the
\* auth-failure notification and is the last request of the call; a response
\* with another non-2xx status is never taken as a page, adds nothing to the
\* records, and ends the call as an error.
C14_StatusClassification ==
    \A i \in DOMAIN responses :
        /\ responses[i].status \in {401, 403}
            => /\ i = Len(requests)
               /\ AuthInvocations >= 1
        /\ responses[i].status = 500
            => /\ i = Len(requests)
               /\ classified[i] # "ok"
               /\ all_edges = RecordsOf(i - 1)
               /\ stop \in {"error", "exception"}

\* C14, the part the code keeps: a 401/403 whose body parses as JSON triggers
\* the auth-failure notification, ends the call and adds no record.
C14_AuthStatusJson ==
    \A i \in DOMAIN responses :
        (responses[i].status \in {401, 403} /\ responses[i].json)
            => /\ i = Len(requests)
               /\ AuthInvocations = 1
               /\ classified[i] = "error"
               /\ stop = "error"
               /\ all_edges = RecordsOf(i - 1)

\* The keyword set the classification is stated with.
ClaimedAuthKeywords == {"unauthorized", "unauthenticated", "token", "expired",
                        "invalid", "forbidden", "401", "403"}

\* A call that handled one response carrying an errors list.
SawErrorsList ==
    /\ detail # None
    /\ Len(detail[1].resps) = 1
    /\ detail[1].resps[1].kind = "errors"

\* C15 - GraphQL error classification: in every client, a body with an
\* errors list is reported as an auth failure if and only if its text holds
\* one of the eight keywords, otherwise as a generic API error; one report
\* per response, the same for every client.
C15_ErrorClassification ==
    SawErrorsList
        => detail[1].notified =
            <<IF detail[1].resps[1].text \in ClaimedAuthKeywords
              THEN "auth" ELSE "api">>

\* C15, the part the code keeps: the paginated client classifies as stated.
C15_PaginatedClientOnly ==
    (SawErrorsList /\ detail[1].client = "paginated")
        => detail[1].notified =
            <<IF detail[1].resps[1].text \in ClaimedAuthKeywords
              THEN "auth" ELSE "api">>

\* The top-level query operations of the detail-fetch clients.
DetailQueryOps == {"get_education", "get_experience", "get_person_highlights",
                   "get_person_education", "get_person_experience",
                   "profile_get_person_experience", "search"}

\* One of them was called and its response body carried an errors list.
DetailOpSawErrors ==
    /\ detail # None
    /\ detail[1].op \in DetailQueryOps
    /\ detail[1].resps[1].kind = "errors"

SectionLabels == <<"Highlights", "Education", "Experience">>
SectionOf(k, profile) ==
    IF k = 1 THEN profile.highlights
    ELSE IF k = 2 THEN profile.education ELSE profile.experience

\* A transport, auth or parse failure of a sub-fetch: no answer, a non-2xx
\* status, a body that is not JSON, an errors list with an auth keyword.
ClaimedFailure(r) ==
    \/ r.kind \in {"transport", "401", "500", "nonjson"}
    \/ r.kind = "errors" /\ r.text \in ClaimedAuthKeywords

\* Sub-fetch k, answered r, leaves by an exception.
SubFetchRaises(k, r) ==
    \/ r.kind \in {"transport", "401", "500", "nonjson"}
    \/ r.kind = "errors" /\ k # 1

\* Labels of the sub-fetches selected by F, in fetch order.
LabelsWhere(F(_, _), resps) ==
    (IF F(1, resps[1]) THEN <<SectionLabels[1]>> ELSE <<>>)
    \o (IF F(2, resps[2]) THEN <<SectionLabels[2]>> ELSE <<>>)
    \o (IF F(3, resps[3]) THEN <<SectionLabels[3]>> ELSE <<>>)

IsFullProfileCall == detail # None /\ detail[1].op = "get_full_profile"

HeldBefore(t) ==
    IF t = MappingTable
    THEN \E i \in DOMAIN results[1].before[t] :
            results[1].before[t][i].linkedin_id = results[1].linkedin_id
    ELSE RowsFor(results[1].before, t, results[1].linkedin_id) # {}

\* Number of rows the run has to write for the table.
RowCount(t) ==
    IF t = "linkedin_education" THEN Len(results[1].fetched[1])
    ELSE IF t = "linkedin_experience" THEN Len(results[1].fetched[2])
    ELSE 1

\* The calls a table's step makes, decided from that table alone.
StepCalls(t) ==
    IF HeldBefore(t) THEN << <<"check", t>> >>
    ELSE (<< <<"check", t>> >>
          \o (IF t = MappingTable THEN <<>> ELSE << <<"transform", t>> >>)
          \o (IF results[1].dry_run THEN <<>>
              ELSE IF RowCount(t) = 0 THEN << <<"insert", t>> >>
              ELSE << <<"insert", t>>, <<"insert_rows_json", t>> >>))

ExpectedCalls == StepCalls(SyncOrder[1]) \o StepCalls(SyncOrder[2])
                 \o StepCalls(SyncOrder[3]) \o StepCalls(SyncOrder[4])

CallCount(c) == Cardinality({i \in DOMAIN calls : calls[i] = c})

\* The warehouse was sent rows for the table and rejected them.
InsertFailed(t) ==
    /\ <<"insert_rows_json", t>> \in Range(calls)
    /\ tables[t] = results[1].before[t]

\* C18 - Insert failures do not stop the sync: a table whose insert comes
\* back with errors is reported with inserted = 0 and is sent once only; the
\* run returns, and every table is still checked and (if no row was held)
\* transformed and inserted in the order education, experience, profile, each
\* decided from its own table alone.
C18_InsertFailureContinues ==
    (results # None /\ ~results[1].dry_run)
        => /\ calls = ExpectedCalls
           /\ \A t \in TableNames :
                InsertFailed(t)
                    => /\ results[1].report[t].inserted = 0
                       /\ ~results[1].report[t].skipped
                       /\ CallCount(<<"insert_rows_json", t>>) = 1
           /\ \A t \in TableNames :
                (<<"insert_rows_json", t>> \in Range(calls) /\ ~InsertFailed(t))
                    => results[1].report[t].inserted = RowCount(t)

\* C18 witness: the education insert is rejected, the experience and
\* profile inserts that follow it go through.
C18_Witness ==
    /\ results # None /\ ~results[1].dry_run
    /\ InsertFailed("linkedin_education")
    /\ results[1].report["linkedin_experience"].inserted = 1
    /\ results[1].report["linkedin_profile"].inserted = 1
    /\ tables["linkedin_profile"] # results[1].before["linkedin_profile"]

C20_DryRunWritesNothing ==
    (results # None /\ results[1].dry_run)
        => /\ tables = results[1].before
           /\ \A t \in TableNames :
                /\ CallCount(<<"insert", t>>) = 0
                /\ CallCount(<<"insert_rows_json", t>>) = 0
                /\ CallCount(<<"check", t>>) = 1
                /\ IF HeldBefore(t)
                   THEN results[1].report[t] = SkipEntry
                   ELSE /\ results[1].report[t] = [NoEntry EXCEPT !.inserted = RowCount(t)]
                        /\ t # MappingTable => CallCount(<<"transform", t>>) = 1

\* C20 witness: a dry run for a key no table holds, with fetched entries.
C20_Witness ==
    /\ results # None /\ results[1].dry_run
    /\ \A t \in TableNames : ~HeldBefore(t)
    /\ results[1].fetched[1] # <<>> /\ results[1].fetched[2] # <<>>
    /\ results[1].report["linkedin_education"].inserted = 1
    /\ results[1].report["linkedin_profile"].inserted = 1

\* C21 - No empty flush: whatever batch_size is passed and whatever the page
\* sizes are (empty pages included), no batch written is empty; a page that
\* fills the buffer to exactly batch_size is flushed once in the loop and the
\* after-loop remainder flush then writes nothing.
C21_NoEmptyFlush ==
    /\ \A i \in DOMAIN batchFiles : batchFiles[i].data # <<>>
    /\ pc = "returned"
        => Len(batchFiles) = (batch_number - 1)
                             + (IF current_batch # <<>> THEN 1 ELSE 0)

\* C21, the part the code keeps: the same for batch_size >= 1.
C21_PositiveBatchSize == batch_size >= 1 => C21_NoEmptyFlush

\* C22 - Request frame: from one request to the next the payload differs in
\* the cursor (variables.after) only; the cursor is replaced once, by the
\* page's endCursor, after each page with hasNextPage = true below the page
\* limit, and the payload is left as it was sent on the iteration that ends
\* the loop.
C22_RequestFrame ==
    /\ \A i \in DOMAIN requests :
        /\ requests[i].hasVariables = requests[1].hasVariables
        /\ i > 1 => requests[i].after = responses[i - 1].endCursor
    /\ \A i \in DOMAIN responses :
        (IsPage(responses[i]) /\ responses[i].hasNextPage /\ i < max_pages)
            => /\ i < Len(requests) \/ pc = "loop"
               /\ pc = "loop" /\ i = Len(requests)
                    => payload = [requests[i] EXCEPT !.after = responses[i].endCursor]
    /\ (Finished /\ requests # <<>>) => payload = requests[Len(requests)]

\* C22, the part the code keeps: dict queries only.
C22_DictQueryOnly == payload.hasVariables => C22_RequestFrame

\* C23 - Pacing placement: one delay is taken between every two consecutive
\* page requests, once the cursor is advanced, and none after the last
\* request, however the loop ends: a finished run of k requests has taken
\* k - 1 delays.
C23_PacingPlacement ==
    /\ \A i \in DOMAIN delays :
        /\ delays[i].request = i
        /\ delays[i].cursor = responses[i].endCursor
        /\ i < Len(requests) \/ pc = "loop"
    /\ pc = "loop" => Len(delays) = Len(requests)
    /\ Finished => Len(delays) = Len(requests) - 1

\* C23 witness: three requests, the third one answered with an error: two
\* delays, none after the failing request.
C23_Witness ==
    /\ pc = "returned" /\ stop = "error"
    /\ Len(requests) = 3 /\ Len(delays) = 2

\* Rows a table holds for the key of the two runs.
RaceRows(t) ==
    IF t = MappingTable
    THEN Cardinality({i \in DOMAIN tables[t] : tables[t][i].linkedin_id = RaceId})
    ELSE Cardinality(RowsFor(tables, t, RaceId))

\* Rows one run writes to a table.
RaceRowCount(t) ==
    IF t \in {"linkedin_education", "linkedin_experience"} THEN Len(RaceList) ELSE 1

\* C24 - Concurrent sync race: a table holds the rows of both runs for the
\* same linkedin_id only if the two runs overlapped in time; with runs
\* strictly one after the other (inserts succeeding) each table holds the
\* rows of at most one run.  (That overlapping runs do reach the doubled
\* state is the witness.)
C24_SingleWriterNoDuplicates ==
    \A t \in TableNames :
        /\ (<<1, t>> \in wrote /\ <<2, t>> \in wrote) => overlapped
        /\ ~overlapped => RaceRows(t) <= RaceRowCount(t)
        /\ RaceRows(t) = RaceRowCount(t) * Cardinality({p \in Runs : <<p, t>> \in wrote})

\* C24 witness: both runs checked the education table before either had
\* inserted, both inserted, and the table holds the rows of both.
C24_Witness ==
    /\ overlapped
    /\ <<1, "linkedin_education">> \in wrote /\ <<2, "linkedin_education">> \in wrote
    /\ RaceRows("linkedin_education") = 2 * RaceRowCount("linkedin_education")
    /\ \A p \in Runs : racePc[p] = "done"

\* C25 - Student inference: the profile row's student field is true exactly
\* when some education entry has an end date whose year is the current year
\* or a later one; entries whose end date is missing, empty or no date are
\* passed over, the transform still returning its row; with no such entry,
\* and with an empty list, the field is false.
C25_StudentInference ==
    \A n \in DOMAIN transformed :
        LET edu == transformed[n].input.education_list
        IN transformed[n].profile.student
            <=> \E i \in DOMAIN edu :
                    edu[i].endKind = "date" /\ edu[i].endYear >= transformed[n].year

\* C25 witness: an entry with an unparsable end date followed by one that
\* ends in the very year of the call: student is true.
C25_Witness ==
    /\ transformed # <<>>
    /\ Len(transformed[1].input.education_list) = 2
    /\ transformed[1].input.education_list[1].endKind = "junk"
    /\ transformed[1].input.education_list[2].endKind = "date"
    /\ transformed[1].input.education_list[2].endYear = transformed[1].year
    /\ transformed[1].profile.student

\* C26 - Notifier failures never propagate: an invocation of the notifier
\* without a messenger answers false and delivers nothing, no more messages
\* are delivered than invocations answered true, and a fetch whose response
\* was classified as an error has returned - never raised - with the result
\* built from what it had collected, whatever the notifier answered.
C26_NotifierContained ==
    /\ \A i \in DOMAIN invoked : invoked[i].ok => messenger
    /\ Len(delivered) <= Cardinality({i \in DOMAIN invoked : invoked[i].ok})
    /\ (classified # <<>> /\ classified[Len(classified)] = "error")
        => /\ pc = "returned"
           /\ stop = "error"
           /\ exc = "none"
           /\ Len(invoked) = 1
           /\ ret = Some([total_count |-> total_count, records |-> all_edges,
                          pages_fetched |-> page])
           /\ outputFile = Some(all_edges)

\* C26 witness: the second page is an error, the messenger exists and its
\* send call threw; the fetch returned the first page's records.
C26_Witness ==
    /\ pc = "returned"
    /\ stop = "error"
    /\ Len(requests) = 2
    /\ all_edges # <<>>
    /\ messenger
    /\ Len(invoked) = 1
    /\ ~invoked[1].ok
    /\ delivered = <<>>

\* C27 - pages_fetched counts requests: whenever a paginated fetch has
\* returned - no next page, page limit reached, or an error on any page, the
\* first included - the pages_fetched of its result is the number of
\* requests the call issued, which is at least one.
C27_PagesFetchedCountsRequests ==
    pc = "returned"
        => /\ ret # None
           /\ ret[1].pages_fetched = Len(requests)
           /\ ret[1].pages_fetched >= 1
           /\ stop \in {"exhausted", "page_limit", "error"}

\* C27 witness: the very first request is answered with an error; the call
\* returns no record and pages_fetched = 1.
C27_Witness ==
    /\ pc = "returned"
    /\ stop = "error"
    /\ Len(requests) = 1
    /\ ret[1].records = <<>>
    /\ ret[1].pages_fetched = 1

\* C28 - No writes after a failed fetch: when every sub-fetch of
\* get_full_profile failed, sync_person leaves all four warehouse tables as
\* they were and reports the failure in the errors list of its result.
\* Violated: the run goes on with empty lists, inserts the mapping row and a
\* profile row made from nothing, and its errors list is empty.
C28_NoWritesAfterFailedFetch ==
    (results # None /\ results[1].fetch_failed)
        => /\ tables = results[1].before
           /\ results[1].errors # <<>>

\* _check_and_notify_error was called on one response.
CheckedOne == detail # None /\ detail[1].op = "_check_and_notify_error"

\* C29 - One notification per response: _check_and_notify_error calls the
\* notifier at most once per response - for HTTP 401 / 403 the auth-failure
\* notification only, also when the body carries an errors list -, and it
\* returns true exactly when the status is 401 or 403 or the body holds an
\* errors key, whether or not the notification was delivered.
C29_OneNotificationPerResponse ==
    CheckedOne
        => LET resp == detail[1].resps[1]
               authStatus == resp.kind \in {"401", "403"}
               hasErrors == resp.text # "none"
           IN /\ Len(detail[1].notified) <= 1
              /\ authStatus => detail[1].notified = <<"auth">>
              /\ detail[1].value = <<authStatus \/ hasErrors>>
              /\ detail[1].value[1] <=> Len(detail[1].notified) = 1
              /\ detail[1].raised = "none"

\* C29 witness: HTTP 403 with an errors list that holds no auth keyword, the
\* messenger's send call threw: one auth-failure call, nothing delivered,
\* the answer is true.
C29_Witness ==
    /\ CheckedOne
    /\ detail[1].resps[1].kind = "403"
    /\ detail[1].resps[1].text = "plain"
    /\ detail[1].notified = <<"auth">>
    /\ detail[1].value = <<TRUE>>
    /\ messenger
    /\ delivered = <<>>

\* C30 - Sequential idempotence of sync: of two runs of sync_person for the
\* same linkedin_id and the same fetched profile, every insert succeeding,
\* the second started after the first has finished: from the moment the
\* first run is done no step changes any of the four tables, and the second
\* run inserts nothing.
C30_SequentialIdempotence ==
    [][(~overlapped /\ \E p \in Runs : racePc[p] = "done")
          => (tables' = tables /\ wrote' = wrote)]_vars

\* C30 witness: run 1 wrote to all four tables, run 2 started afterwards and
\* is done without having written; each table holds one run's rows.
C30_Witness ==
    /\ ~overlapped
    /\ \A p \in Runs : racePc[p] = "done"
    /\ wrote = {<<1, t>> : t \in TableNames}
    /\ \A t \in TableNames : RaceRows(t) = RaceRowCount(t)

\* =================================================================== Init
InitFetch ==
    /\ pc = "idle" /\ op = "none"
    /\ max_pages = 1 /\ batch_size = 1
    /\ payload = [hasVariables |-> FALSE, after |-> None]
    /\ all_edges = <<>> /\ total_count = None /\ page = 1
    /\ current_batch = <<>> /\ batch_number = 1
    /\ batchFiles = <<>> /\ outputFile = None
    /\ requests = <<>> /\ responses = <<>> /\ classified = <<>>
    /\ ret = None /\ stop = "none" /\ exc = "none"
    /\ now = 0 /\ last_long_break = 0 /\ delays = <<>>

InitNotifier ==
    /\ messenger \in BOOLEAN
    /\ today = 1
    /\ seenKeys = {}
    /\ delivered = <<>>
    /\ invoked = <<>>

InitSync ==
    /\ tables = [t \in TableNames |->
                    IF t = MappingTable
                    THEN <<[linkedin_id |-> OtherId, harmonic_id |-> HarmonicId[OtherId],
                            full_name |-> Some("name")]>>
                    ELSE <<[date |-> 0, linkedinId |-> OtherId,
                            entityUrn |-> <<t, OtherId>>]>>]
    /\ calls = <<>>
    /\ results = None
    /\ runs = 0
    /\ racePc = [p \in Runs |-> "idle"]
    /\ overlapped = FALSE
    /\ wrote = {}

InitTransform ==
    /\ year = 1
    /\ transformed = <<>>

InitDetail == detail = None

Init == InitFetch /\ InitNotifier /\ InitSync /\ InitTransform /\ InitDetail

Next == CallCompanies \/ CallPeople \/ CompaniesPage \/ PeoplePage

Spec == Init /\ [][Next]_vars

NextPace == CallCompanies \/ CallPeople \/ PacedCompaniesPage \/ PacedPeoplePage

SpecPace == Init /\ [][NextPace]_vars

NextNotify == NotifyAuthFailure \/ NotifyApiError \/ NextDay

SpecNotify == Init /\ [][NextNotify]_vars

NextSync == SyncPerson

SpecSync == Init /\ [][NextSync]_vars

NextRace == SyncStart \/ SyncCheckStep \/ SyncInsertStep

SpecRace == Init /\ [][NextRace]_vars

NextTransform == TransformRows \/ NextDay \/ NewYear

SpecTransform == Init /\ [][NextTransform]_vars

NextDetail ==
    \/ CallGetEducation \/ CallGetExperience \/ CallGetPersonHighlights
    \/ CallGetPersonEducation \/ CallGetPersonExperience
    \/ CallProfileGetPersonExperience \/ CallSearch
    \/ CallSearchPeopleHelper \/ CallGetLinkedinId
    \/ CallCheckAndNotifyError \/ CallGetFullProfile

SpecDetail == Init /\ [][NextDetail]_vars

====
